---- MODULE Spec2Model ----
(***************************************************************************)
(* Document indexing and retrieval-augmented query engine of the          *)
(* Language_Learning_Chatbot_Project backend:                              *)
(*   - the chunker  (storage/pdf_handler.py extract_text_chunks,           *)
(*                   utils/helpers.py chunk_text),                         *)
(*   - the vector index (storage/vector_store.py ChromaVectorStore) and    *)
(*     the question answering agent on top of it (agents/qa_agent.py),     *)
(*   - the rate limited generative gateway (config/gemini_config.py),      *)
(*     its token counter and the module-level instance accessors,          *)
(*   - the retry decorator and the extraction agent (agents/),             *)
(*   - text extraction and validation (storage/pdf_handler.py).            *)
(* The parts share no state; each has its own specification (SpecChunk,    *)
(* SpecStore, SpecRate, SpecRetry, SpecAgent, SpecToken, SpecConf,         *)
(* SpecText, SpecValidate, SpecSingleton) over the variables of the module.*)
(***************************************************************************)
EXTENDS Integers, Sequences, FiniteSets, TLC

VARIABLES
    \* ---- chunker: one call of extract_text_chunks / chunk_text
    c_pc,        \* "idle" | "pages" | "loop" | "returned" | "raised"
    c_mode,      \* "pdf" (extract_text_chunks) | "helper" (chunk_text)
    c_size,      \* chunk_size argument
    c_overlap,   \* overlap argument
    c_page,      \* page_num of the page in hand (0: none yet)
    c_text,      \* page_text / text in hand
    c_start,     \* local start
    c_chunk_id,  \* local chunk_id counter (runs over all pages)
    c_chunks,    \* local chunks list
    c_iters,     \* iterations of the while loop made on the page in hand
    \* ---- vector index and QA agent
    coll,        \* the Chroma collection: chunk id -> metadata
    s_lock,      \* ChromaVectorStore._lock: holder or "free"
    s_pc,        \* per store thread: "idle" | "add_persist" | "del_persist"
    s_local,     \* per store thread: locals of the call in progress
    out,         \* what the most recently completed call returned
    delState,    \* history per document: "none" | "failed" | "empty" | "deleted"
    \* ---- rate limited gateway
    now,            \* time.time(), in ticks
    request_times,  \* GeminiClient._request_times
    g_model,        \* GeminiClient.model is set (the backend library was configured)
    g_lock,         \* GeminiClient._lock: holder or "free"
    g_pc,           \* per caller: position inside generate_content
    g_local,        \* per caller: locals and per-call history
    granted,        \* history: time stamps of all calls _check_rate_limit granted
    \* ---- retry_on_failure: one call of a wrapped function
    r_pc,        \* "idle" | "call" | "sleep" | "returned" | "raised"
    r_max,       \* max_retries
    r_delay,     \* delay
    r_attempt,   \* the loop variable attempt
    r_last,      \* last_error ("None" before the first failure)
    r_log,       \* history: the outcome of each invocation of func
    r_slept,     \* history: the argument of each time.sleep
    r_result,    \* what the wrapper returned or raised
    \* ---- ExtractionAgent: one call of process
    a_pc,        \* "idle" | "topics" | "vocab" | "grammar" | "chunks" | "index" | "done"
    a_in,        \* arguments and configuration: language, vector_store set
    a_gen,       \* history: the outcome of each generate_content call made
    a_loc,       \* locals: topics, vocabulary, grammar_points, chunks, add outcome
    a_out,       \* the AgentResponse returned
    \* ---- GeminiClient.count_tokens
    tk,          \* the last call: length of text, what the backend did, the result
    \* ---- QAAgent.calculate_confidence: two calls side by side
    cf,          \* the two argument pairs and the two results
    \* ---- PDFHandler.extract_text_from_pdf: one call
    ex,          \* position, arguments, text_by_page so far, what raised
    \* ---- PDFHandler.validate_pdf: one call
    vp,          \* the file as the checks see it, and the result
    \* ---- get_gemini_client / get_vector_store: the module-level instance
    sg           \* the global, the instances made, each caller's position and result

chunkVars == <<c_pc, c_mode, c_size, c_overlap, c_page, c_text, c_start,
               c_chunk_id, c_chunks, c_iters>>
storeVars == <<coll, s_lock, s_pc, s_local, out, delState>>
rateVars  == <<now, request_times, g_model, g_lock, g_pc, g_local, granted>>
retryVars == <<r_pc, r_max, r_delay, r_attempt, r_last, r_log, r_slept, r_result>>
agentVars == <<a_pc, a_in, a_gen, a_loc, a_out>>
vars == <<chunkVars, storeVars, rateVars, retryVars, agentVars, tk, cf, ex, vp, sg>>

\* what the operations of one part leave alone
chunkFrame == <<storeVars, rateVars, retryVars, agentVars, tk, cf, ex, vp, sg>>
storeFrame == <<chunkVars, rateVars, retryVars, agentVars, tk, cf, ex, vp, sg>>
rateFrame  == <<chunkVars, storeVars, retryVars, agentVars, tk, cf, ex, vp, sg>>
retryFrame == <<chunkVars, storeVars, rateVars, agentVars, tk, cf, ex, vp, sg>>
agentFrame == <<chunkVars, storeVars, rateVars, retryVars, tk, cf, ex, vp, sg>>
tokenFrame == <<chunkVars, storeVars, rateVars, retryVars, agentVars, cf, ex, vp, sg>>
confFrame  == <<chunkVars, storeVars, rateVars, retryVars, agentVars, tk, ex, vp, sg>>
textFrame == <<chunkVars, storeVars, rateVars, retryVars, agentVars, tk, cf, vp, sg>>
validateFrame == <<chunkVars, storeVars, rateVars, retryVars, agentVars, tk, cf, ex, sg>>
singletonFrame == <<chunkVars, storeVars, rateVars, retryVars, agentVars, tk, cf, ex, vp>>

----------------------------------------------------------------------------
(* Bounds of the model *)

MaxLen == 4          \* longest page text, in characters
MaxChunkSize == 3    \* largest chunk_size argument
MaxOverlap == 3      \* largest overlap argument (overlap >= chunk_size included)
MaxIter == MaxLen + 2   \* loop iterations followed on one page

\* A character is whitespace or not; strip() and split() see nothing else.
Chars == {"a", " "}
PageNums == {1, 2}   \* text_by_page holds at most this many pages

RECURSIVE SeqsUpTo(_, _)
SeqsUpTo(S, n) ==
    IF n = 0 THEN {<<>>}
    ELSE LET shorter == SeqsUpTo(S, n - 1)
         IN  shorter \cup {Append(s, x) : s \in {t \in shorter : Len(t) = n - 1}, x \in S}

Texts == SeqsUpTo(Chars, MaxLen)

----------------------------------------------------------------------------
(* Python string operations used by the chunker *)

IsSpace(c) == c = " "

\* str.strip(): drop leading and trailing whitespace
RECURSIVE LStrip(_)
LStrip(s) == IF s # <<>> /\ IsSpace(Head(s)) THEN LStrip(Tail(s)) ELSE s

RECURSIVE RStrip(_)
RStrip(s) ==
    IF s # <<>> /\ IsSpace(s[Len(s)]) THEN RStrip(SubSeq(s, 1, Len(s) - 1)) ELSE s

Strip(s) == RStrip(LStrip(s))

\* a slice bound as Python normalises it for a sequence of length n
SliceIndex(i, n) ==
    IF i < 0 THEN (IF i + n < 0 THEN 0 ELSE i + n)
    ELSE IF i > n THEN n ELSE i

\* s[a:b]
PySlice(s, a, b) ==
    LET lo == SliceIndex(a, Len(s))
        hi == SliceIndex(b, Len(s))
    IN  IF lo >= hi THEN <<>> ELSE SubSeq(s, lo + 1, hi)

----------------------------------------------------------------------------
(* The chunker *)

\* mutant of NextStart: the window advances by a full chunk_size (overlap lost)
NextStartNoOverlap(text, start, size, overlap) ==
    LET end == start + size
    IN  IF end < Len(text) THEN end ELSE Len(text)

\* mutant of NextStart: the next window starts where this one started
NextStartNoAdvance(text, start, size, overlap) ==
    LET end == start + size
    IN  IF end < Len(text) THEN end - size ELSE Len(text)

\* mutant of NextStart: <= for <, a window ending exactly at the page end is
\* followed by one more
NextStartInclusive(text, start, size, overlap) ==
    LET end == start + size
    IN  IF end <= Len(text) THEN end - overlap ELSE Len(text)

\* pdf_handler.py:309 / helpers.py:113
\*   start = end - overlap if end < len(page_text) else len(page_text)
NextStart(text, start, size, overlap) ==
    LET end == start + size
    IN  IF end < Len(text) THEN end - overlap ELSE Len(text)

\* pdf_handler.py:296-305: the dictionary appended for one window.  The
\* classification fields (is_vocabulary, difficulty, word_count) are functions
\* of the chunk text alone and are left out.  chunk_text (helpers.py:111)
\* appends the stripped text only; for it page is 0 and the span fields
\* record the window the text was cut from.
ChunkRecord(text, page, id, start, size) ==
    [chunk_id   |-> <<page, id>>,
     text       |-> Strip(PySlice(text, start, start + size)),
     page       |-> page,
     start_char |-> start,
     end_char   |-> start + size]

\* pdf_handler.py:289 / helpers.py:110   if chunk_text.strip():
KeepWindow(text, start, size) == Strip(PySlice(text, start, start + size)) # <<>>

\* pdf_handler.py:268-274: a call starts; extract_text_from_pdf may raise,
\* and the exception leaves extract_text_chunks (313-315)
ExtractBegin ==
    /\ c_pc = "idle"
    /\ \E size \in 1..MaxChunkSize, overlap \in 0..MaxOverlap, raises \in BOOLEAN :
         /\ c_mode' = "pdf"
         /\ c_size' = size
         /\ c_overlap' = overlap
         /\ c_pc' = IF raises THEN "raised" ELSE "pages"
    /\ UNCHANGED <<c_page, c_text, c_start, c_chunk_id, c_chunks, c_iters>>
    /\ UNCHANGED chunkFrame

\* pdf_handler.py:276-284: the next page of text_by_page
NextPage ==
    /\ c_pc = "pages"
    /\ c_mode = "pdf"
    /\ c_page + 1 \in PageNums
    /\ \E text \in Texts :
         /\ c_text' = text
         /\ c_page' = c_page + 1
         /\ c_start' = 0
         /\ c_iters' = 0
         /\ c_pc' = IF Strip(text) = <<>> THEN "pages" ELSE "loop"
    /\ UNCHANGED <<c_mode, c_size, c_overlap, c_chunk_id, c_chunks>>
    /\ UNCHANGED chunkFrame

\* helpers.py:100-104: chunk_text starts
ChunkTextBegin ==
    /\ c_pc = "idle"
    /\ \E text \in Texts, size \in 1..MaxChunkSize, overlap \in 0..MaxOverlap :
         /\ c_mode' = "helper"
         /\ c_size' = size
         /\ c_overlap' = overlap
         /\ c_text' = text
         /\ c_pc' = IF text = <<>> THEN "returned" ELSE "loop"
    /\ UNCHANGED <<c_page, c_start, c_chunk_id, c_chunks, c_iters>>
    /\ UNCHANGED chunkFrame

\* pdf_handler.py:285-309 / helpers.py:106-113: one iteration of the while loop
LoopIter ==
    /\ c_pc = "loop"
    /\ c_start < Len(c_text)
    /\ c_iters < MaxIter
    /\ LET keep == KeepWindow(c_text, c_start, c_size)
           next == NextStart(c_text, c_start, c_size, c_overlap)
       IN  /\ c_chunks' = IF keep
                          THEN Append(c_chunks,
                                      ChunkRecord(c_text, c_page, c_chunk_id, c_start, c_size))
                          ELSE c_chunks
           /\ c_chunk_id' = IF keep THEN c_chunk_id + 1 ELSE c_chunk_id
           /\ c_start' = next
           /\ c_iters' = c_iters + 1
           /\ c_pc' = IF next < Len(c_text) THEN "loop"
                      ELSE IF c_mode = "pdf" THEN "pages" ELSE "returned"
    /\ UNCHANGED <<c_mode, c_size, c_overlap, c_page, c_text>>
    /\ UNCHANGED chunkFrame

\* pdf_handler.py:311-317: text_by_page is exhausted, the chunks are returned
ExtractReturn ==
    /\ c_pc = "pages"
    /\ c_mode = "pdf"
    /\ c_pc' = "returned"
    /\ UNCHANGED <<c_mode, c_size, c_overlap, c_page, c_text, c_start,
                   c_chunk_id, c_chunks, c_iters>>
    /\ UNCHANGED chunkFrame

ChunkInit ==
    /\ c_pc = "idle"
    /\ c_mode = "pdf"
    /\ c_size = 1
    /\ c_overlap = 0
    /\ c_page = 0
    /\ c_text = <<>>
    /\ c_start = 0
    /\ c_chunk_id = 0
    /\ c_chunks = <<>>
    /\ c_iters = 0

NextChunk ==
    \/ ExtractBegin
    \/ NextPage
    \/ ChunkTextBegin
    \/ LoopIter
    \/ ExtractReturn


----------------------------------------------------------------------------
(* The vector index: storage/vector_store.py *)

Docs == {"d1", "d2"}             \* pdf_id values
Ids == {"c1", "c2", "c3"}        \* chunk_id values
StoreThreads == {"s1", "s2"}     \* threads calling into one ChromaVectorStore
MaxTopK == 2                     \* largest top_k a caller of retrieve passes
QA_TOP_K == 5                    \* qa_agent.py:68

\* Distance of a chunk from the query text, in hundredths, as the embedding
\* backend reports it (an external collaborator: any fixed table will do;
\* this one has a tie and a distance above 1.0).
Dist(id) == CASE id = "c1" -> 20 [] id = "c2" -> 20 [] OTHER -> 130

\* pdf_handler.py:296-298  'chunk_id': the sequence number the chunker gave
\* the chunk, which add_pdf_chunks uses as its id (vector_store.py:104)
ChunkSeq(id) == CASE id = "c1" -> 1 [] id = "c2" -> 2 [] OTHER -> 3

NoLocal == [pdf_id |-> "none", batch |-> {}, added |-> {}]

\* What a call returned, one shape for all calls.  Beside the returned values
\* (ok, res, confidence, no_context, total, pdf_chunks) it notes, for the
\* properties below, what was true when the call returned:
\*   added    the chunk ids this add_pdf_chunks call stored in the collection
\*   missing  the chunk ids of its batch that were not in the collection
\*   stale    the chunk ids of its batch whose entry is not the one of this call
\*   docs     the pdf_id metadata of the chunks a retrieval returned
\*   after    delState of the document when the retrieval ran
\*   backend  the generative backend was called
\*   removed  the number of chunks this delete_pdf_collection call removed
\*   kind     of a delete: "error" (an exception was caught), "empty" (no chunk
\*            of the document was found), "deleted"
\*   answer_len  of an answered question: len(answer_data['answer'])
\*   during   of a query: a mutating call of another thread had changed the
\*            collection and not yet returned
NoOut == [op |-> "none", pdf_id |-> "none", ok |-> FALSE, top_k |-> 0,
          res |-> <<>>, docs |-> {}, added |-> {}, missing |-> {}, stale |-> {},
          after |-> "none", kind |-> "none", confidence |-> 0,
          no_context |-> FALSE, backend |-> FALSE, total |-> 0, pdf_chunks |-> 0,
          removed |-> 0, during |-> FALSE, answer_len |-> 0]

Matching(c, d) == {id \in DOMAIN c : c[id].pdf_id = d}

\* the threads inside add_pdf_chunks, delete_pdf_collection or clear_all,
\* between the call that changes the collection and the return
InFlight == {s \in StoreThreads : s_pc[s] # "idle"}

\* mutant of StoreLockFree: the methods do not take the lock
StoreLockIgnored == TRUE

\* vector_store.py:46 and 96, 163, 212, 260, 296, 331, 375: every method body
\* runs inside "with self._lock", a threading.Lock: entered only when no
\* thread holds it
StoreLockFree == s_lock = "free"

\* all orderings of a finite set as sequences without repetition
Perms(S) ==
    {f \in [1..Cardinality(S) -> S] : \A i, j \in 1..Cardinality(S) : i # j => f[i] # f[j]}

\* mutant of WhereClause: the query is not filtered by document
WhereClauseNone(c, d) == DOMAIN c

\* vector_store.py:165 and 262   where = {"pdf_id": pdf_id}
WhereClause(c, d) == Matching(c, d)

\* vector_store.py:170-174  collection.query(query_texts, n_results=top_k,
\* where): the n_results nearest entries that pass the filter, nearest first
\* (entries at equal distance in either order).  No result for n_results < 1:
\* the library rejects the call.
CollectionQuery(c, d, k) ==
    IF k < 1 THEN {}
    ELSE LET m == WhereClause(c, d)
             n == IF k < Cardinality(m) THEN k ELSE Cardinality(m)
         IN  {SubSeq(f, 1, n) : f \in
                {g \in Perms(m) : \A i, j \in 1..Len(g) : i < j => Dist(g[i]) <= Dist(g[j])}}

\* vector_store.py:162-197: what retrieve_relevant_chunks can return: the
\* formatted query result, or [] when the query raised (195-197)
RetrieveOutcomes(c, d, k) == CollectionQuery(c, d, k) \cup {<<>>}

\* vector_store.py:102-127: collection.add(ids, documents, metadatas) with
\* metadata pdf_id = the pdf_id argument.  add() stores the entries whose id
\* is new and leaves an entry that exists as it is.
CollectionAdd(c, d, batch) ==
    [id \in DOMAIN c \cup batch |->
        IF id \in DOMAIN c THEN c[id] ELSE [pdf_id |-> d]]

\* mutant of CollectionDelete: the whole collection is emptied
CollectionDeleteEverything(c, ids) == [id \in {} |-> c[id]]

\* mutant of CollectionDelete: one of the ids is left behind
CollectionDeleteLeavesOne(c, ids) ==
    LET kept == CHOOSE id \in ids : TRUE
    IN  [id \in DOMAIN c \ (ids \ {kept}) |-> c[id]]

\* vector_store.py:268-270  collection.delete(ids=results['ids'])
CollectionDelete(c, ids) == [id \in DOMAIN c \ ids |-> c[id]]

\* vector_store.py:78-139, first part: the empty batch is refused (89-91);
\* otherwise the lock is taken and the batch handed to collection.add, which
\* stores it or raises (137-139: lock released, False returned).
AddBegin(s) ==
    /\ s_pc[s] = "idle"
    /\ \E d \in Docs, batch \in SUBSET Ids, raises \in BOOLEAN :
         IF batch = {}
         THEN /\ ~raises
              /\ out' = [NoOut EXCEPT !.op = "add", !.pdf_id = d, !.ok = FALSE]
              /\ UNCHANGED <<coll, s_lock, s_pc, s_local, delState>>
         ELSE /\ StoreLockFree
              /\ IF raises
                 THEN /\ out' = [NoOut EXCEPT !.op = "add", !.pdf_id = d, !.ok = FALSE,
                                              !.missing = batch \ DOMAIN coll]
                      /\ UNCHANGED <<coll, s_lock, s_pc, s_local>>
                 ELSE /\ coll' = CollectionAdd(coll, d, batch)
                      /\ s_lock' = s
                      /\ s_pc' = [s_pc EXCEPT ![s] = "add_persist"]
                      /\ s_local' = [s_local EXCEPT ![s] =
                                       [pdf_id |-> d, batch |-> batch,
                                        added |-> batch \ DOMAIN coll]]
                      /\ UNCHANGED out
              /\ delState' = [delState EXCEPT ![d] = "none"]
    /\ UNCHANGED storeFrame

\* vector_store.py:129-139: client.persist() returns (True is returned) or
\* raises (the handler at 137 returns False); the lock is released either way
AddPersist(s) ==
    /\ s_pc[s] = "add_persist"
    /\ \E raises \in BOOLEAN :
         out' = [NoOut EXCEPT !.op = "add", !.pdf_id = s_local[s].pdf_id,
                              !.ok = ~raises, !.added = s_local[s].added,
                              !.missing = s_local[s].batch \ DOMAIN coll,
                              !.stale = {id \in s_local[s].batch \cap DOMAIN coll :
                                            coll[id].pdf_id # s_local[s].pdf_id}]
    /\ s_lock' = "free"
    /\ s_pc' = [s_pc EXCEPT ![s] = "idle"]
    /\ s_local' = [s_local EXCEPT ![s] = NoLocal]
    /\ UNCHANGED <<coll, delState>>
    /\ UNCHANGED storeFrame

\* vector_store.py:141-197  retrieve_relevant_chunks(query, pdf_id, top_k)
Retrieve(s) ==
    /\ s_pc[s] = "idle"
    /\ StoreLockFree
    /\ \E d \in Docs, k \in 0..MaxTopK :
         \E res \in RetrieveOutcomes(coll, d, k) :
            out' = [NoOut EXCEPT !.op = "retrieve", !.pdf_id = d, !.top_k = k,
                                 !.res = res, !.after = delState[d],
                                 !.during = InFlight # {},
                                 !.docs = {coll[res[i]].pdf_id : i \in DOMAIN res}]
    /\ UNCHANGED <<coll, s_lock, s_pc, s_local, delState>>
    /\ UNCHANGED storeFrame

\* vector_store.py:199-245  get_collection_stats(pdf_id): total_chunks and
\* pdf_chunks, or {'error': ...} when the collection raises
Stats(s) ==
    /\ s_pc[s] = "idle"
    /\ StoreLockFree
    /\ \E d \in Docs, raises \in BOOLEAN :
         out' = IF raises
                THEN [NoOut EXCEPT !.op = "stats", !.pdf_id = d, !.ok = FALSE,
                                   !.during = InFlight # {}]
                ELSE [NoOut EXCEPT !.op = "stats", !.pdf_id = d, !.ok = TRUE,
                                   !.during = InFlight # {},
                                   !.total = Cardinality(DOMAIN coll),
                                   !.pdf_chunks = Cardinality(WhereClause(coll, d))]
    /\ UNCHANGED <<coll, s_lock, s_pc, s_local, delState>>
    /\ UNCHANGED storeFrame

\* What the delete_pdf_collection calls completed for a document since the
\* last add for it reached the collection ("none": no such call):
\*   "deleted"  one of them removed chunks (its get and delete did not raise)
\*   "empty"    else, one of them found no chunk to remove
\*   "failed"   else: in each of them get or delete raised
AfterDelete(state, outcome) ==
    IF "deleted" \in {state, outcome} THEN "deleted"
    ELSE IF "empty" \in {state, outcome} THEN "empty"
    ELSE "failed"

CleanlyDeleted == {"empty", "deleted"}

\* vector_store.py:247-283, first part: under the lock, collection.get
\* (raises: 281-283) finds the ids of the document; none: False (277-279);
\* else collection.delete (raises: 281-283)
DeleteBegin(s) ==
    /\ s_pc[s] = "idle"
    /\ StoreLockFree
    /\ \E d \in Docs, fails \in {"no", "get", "delete"} :
         LET ids == WhereClause(coll, d)
         IN  IF fails = "get" \/ ids = {}
             THEN /\ fails # "delete"
                  /\ out' = [NoOut EXCEPT !.op = "delete", !.pdf_id = d, !.ok = FALSE,
                                          !.kind = IF fails = "no" THEN "empty" ELSE "error"]
                  /\ delState' = [delState EXCEPT ![d] =
                                    AfterDelete(@, IF fails = "no" THEN "empty" ELSE "failed")]
                  /\ UNCHANGED <<coll, s_lock, s_pc, s_local>>
             ELSE IF fails = "delete"
             THEN /\ out' = [NoOut EXCEPT !.op = "delete", !.pdf_id = d, !.ok = FALSE,
                                          !.kind = "error"]
                  /\ delState' = [delState EXCEPT ![d] = AfterDelete(@, "failed")]
                  /\ UNCHANGED <<coll, s_lock, s_pc, s_local>>
             ELSE /\ coll' = CollectionDelete(coll, ids)
                  /\ s_lock' = s
                  /\ s_pc' = [s_pc EXCEPT ![s] = "del_persist"]
                  /\ s_local' = [s_local EXCEPT ![s] =
                                   [pdf_id |-> d, batch |-> ids, added |-> {}]]
                  /\ UNCHANGED <<out, delState>>
    /\ UNCHANGED storeFrame

\* vector_store.py:272-283: client.persist() returns (True) or raises (False)
DeletePersist(s) ==
    /\ s_pc[s] = "del_persist"
    /\ \E raises \in BOOLEAN :
         out' = [NoOut EXCEPT !.op = "delete", !.pdf_id = s_local[s].pdf_id,
                              !.ok = ~raises,
                              !.kind = IF raises THEN "error" ELSE "deleted",
                              !.removed = Cardinality(s_local[s].batch)]
    /\ delState' = [delState EXCEPT ![s_local[s].pdf_id] = AfterDelete(@, "deleted")]
    /\ s_lock' = "free"
    /\ s_pc' = [s_pc EXCEPT ![s] = "idle"]
    /\ s_local' = [s_local EXCEPT ![s] = NoLocal]
    /\ UNCHANGED coll
    /\ UNCHANGED storeFrame

\* vector_store.py:317-357 get_vocabulary_chunks(pdf_id, difficulty) and
\* 359-396 search_by_page(pdf_id, page_number): collection.get with a where
\* clause of pdf_id and further metadata (is_vocabulary, difficulty, page), so
\* some of the chunks of the document; [] when the collection raises.
\* pdf_chunks is the number of chunks returned.
GetOutcomes(c, d) == SUBSET WhereClause(c, d)

GetVocabularyChunks(s) ==
    /\ s_pc[s] = "idle"
    /\ StoreLockFree
    /\ \E d \in Docs :
         \E got \in GetOutcomes(coll, d) :
            out' = [NoOut EXCEPT !.op = "vocabulary", !.pdf_id = d,
                                 !.during = InFlight # {},
                                 !.docs = {coll[id].pdf_id : id \in got},
                                 !.pdf_chunks = Cardinality(got)]
    /\ UNCHANGED <<coll, s_lock, s_pc, s_local, delState>>
    /\ UNCHANGED storeFrame

SearchByPage(s) ==
    /\ s_pc[s] = "idle"
    /\ StoreLockFree
    /\ \E d \in Docs :
         \E got \in GetOutcomes(coll, d) :
            out' = [NoOut EXCEPT !.op = "page", !.pdf_id = d,
                                 !.during = InFlight # {},
                                 !.docs = {coll[id].pdf_id : id \in got},
                                 !.pdf_chunks = Cardinality(got)]
    /\ UNCHANGED <<coll, s_lock, s_pc, s_local, delState>>
    /\ UNCHANGED storeFrame

\* vector_store.py:396-416  health_check(): collection.count() read without
\* the lock; 'unhealthy' when it raises
HealthCheck(s) ==
    /\ s_pc[s] = "idle"
    /\ \E raises \in BOOLEAN :
         out' = IF raises
                THEN [NoOut EXCEPT !.op = "health", !.ok = FALSE,
                                   !.during = InFlight # {}]
                ELSE [NoOut EXCEPT !.op = "health", !.ok = TRUE,
                                   !.during = InFlight # {},
                                   !.total = Cardinality(DOMAIN coll)]
    /\ UNCHANGED <<coll, s_lock, s_pc, s_local, delState>>
    /\ UNCHANGED storeFrame

\* vector_store.py:285-315, first part: under the lock,
\* client.delete_collection drops every chunk, or raises (313-315: False)
ClearBegin(s) ==
    /\ s_pc[s] = "idle"
    /\ StoreLockFree
    /\ \E raises \in BOOLEAN :
         IF raises
         THEN /\ out' = [NoOut EXCEPT !.op = "clear", !.ok = FALSE]
              /\ UNCHANGED <<coll, s_lock, s_pc, s_local>>
         ELSE /\ coll' = <<>>
              /\ s_lock' = s
              /\ s_pc' = [s_pc EXCEPT ![s] = "clear_create"]
              /\ s_local' = [s_local EXCEPT ![s] =
                               [pdf_id |-> "none", batch |-> DOMAIN coll, added |-> {}]]
              /\ UNCHANGED out
    /\ UNCHANGED delState
    /\ UNCHANGED storeFrame

\* vector_store.py:300-315: client.create_collection and client.persist return
\* (True) or one of them raises (False); the lock is released either way.
\* When create_collection raised, self.collection is still the dropped
\* collection and every later call on it raises, an outcome each call has.
ClearCreate(s) ==
    /\ s_pc[s] = "clear_create"
    /\ \E raises \in BOOLEAN :
         out' = [NoOut EXCEPT !.op = "clear", !.ok = ~raises,
                              !.removed = Cardinality(s_local[s].batch)]
    /\ s_lock' = "free"
    /\ s_pc' = [s_pc EXCEPT ![s] = "idle"]
    /\ s_local' = [s_local EXCEPT ![s] = NoLocal]
    /\ UNCHANGED <<coll, delState>>
    /\ UNCHANGED storeFrame


----------------------------------------------------------------------------
(* The question answering agent: agents/qa_agent.py *)

AnswerLens == {0, 40, 150}    \* len(answer) of the answers the backend gives

RECURSIVE SumDist(_)
SumDist(chunks) == IF chunks = <<>> THEN 0 ELSE Dist(Head(chunks)) + SumDist(Tail(chunks))

Min(a, b) == IF a < b THEN a ELSE b

\* qa_agent.py:247  round(confidence, 2), in hundredths, of the double the
\* code computed for the exact value n / d: the nearest hundredth.  Where
\* n / d is exactly halfway between two hundredths the double is not: 0.7 and
\* 0.3 are not binary fractions, and round() sees a value on one side.  For
\* the distances and answer lengths of this model (Dist, AnswerLens) the
\* halves are 0.175, 0.295 and 0.475 (distances 0.2 and 1.3 with answers of
\* 0, 40 and 150 characters); each is computed as the double just below it
\* (0.17499999999999998..., 0.29499999999999998..., 0.47499999999999997...)
\* and goes down.
RoundDiv(n, d) ==
    LET q == n \div d
        r == n % d
    IN  IF 2 * r <= d THEN q ELSE q + 1

\* mutant of calculate_confidence: the average distance is not capped at 1.0
calculate_confidence_uncapped(answer_len, chunks) ==
    IF chunks = <<>> THEN 0
    ELSE LET m == Len(chunks)
             lf == Min(answer_len, 100)
         IN  RoundDiv(70 * (100 * m - SumDist(chunks)) + 30 * m * lf, 100 * m)

\* mutant of calculate_confidence: the length factor is not capped at 1.0
calculate_confidence_unsaturated(answer_len, chunks) ==
    IF chunks = <<>> THEN 0
    ELSE LET m == Len(chunks)
             capped == Min(SumDist(chunks), 100 * m)
         IN  RoundDiv(70 * (100 * m - capped) + 30 * m * answer_len, 100 * m)

\* qa_agent.py:222-247  calculate_confidence, in hundredths:
\*   round(0.7 * (1 - min(avg_distance, 1.0)) + 0.3 * min(len / 100, 1.0), 2)
calculate_confidence(answer_len, chunks) ==
    IF chunks = <<>> THEN 0
    ELSE LET m == Len(chunks)
             capped == Min(SumDist(chunks), 100 * m)     \* m * min(avg, 1.0)
             lf == Min(answer_len, 100)                  \* length_factor
         IN  RoundDiv(70 * (100 * m - capped) + 30 * m * lf, 100 * m)

\* mutant of QAResult: no early return for an empty context
QAResultNoGuard(d, chunks, raises, len) ==
    IF raises
    THEN [NoOut EXCEPT !.op = "qa", !.pdf_id = d, !.res = chunks, !.kind = "failed",
                       !.ok = FALSE, !.backend = TRUE]
    ELSE [NoOut EXCEPT !.op = "qa", !.pdf_id = d, !.res = chunks, !.kind = "answered",
                       !.ok = TRUE, !.backend = TRUE, !.answer_len = len,
                       !.confidence = calculate_confidence(len, chunks)]

\* qa_agent.py:64-124  QAAgent.process after retrieve_context returned chunks:
\* the AgentResponse (ok is its success field) and whether the generative
\* backend was called for it; generate_response raises or gives an answer of
\* len characters
QAResult(d, chunks, raises, len) ==
    IF chunks = <<>>
    THEN [NoOut EXCEPT !.op = "qa", !.pdf_id = d, !.res = chunks, !.kind = "no_context",
                       !.ok = TRUE, !.confidence = 0, !.no_context = TRUE]
    ELSE IF raises
    THEN [NoOut EXCEPT !.op = "qa", !.pdf_id = d, !.res = chunks, !.kind = "failed",
                       !.ok = FALSE, !.backend = TRUE]
    ELSE [NoOut EXCEPT !.op = "qa", !.pdf_id = d, !.res = chunks, !.kind = "answered",
                       !.ok = TRUE, !.backend = TRUE, !.answer_len = len,
                       !.confidence = calculate_confidence(len, chunks)]

\* The base class QAAgent is written against (constructed with gemini_client,
\* agent_name, system_prompt and temperature; members agent_name,
\* generate_response, log_performance) is not the BaseAgent of
\* agents/base_agent.py, which has none of these.  Of it the agent uses
\* generate_response(prompt) (qa_agent.py:193), the call of the generative
\* backend: it raises, or returns an answer of len characters.
GenerateResponseOutcomes == [raises : BOOLEAN, len : AnswerLens]

\* qa_agent.py:43-150  QAAgent.process(pdf_id, question, ...): retrieve_context
\* (top_k = 5, [] when retrieval raises), then QAResult
QAProcess(s) ==
    /\ s_pc[s] = "idle"
    /\ StoreLockFree
    /\ \E d \in Docs, g \in GenerateResponseOutcomes :
         \E chunks \in RetrieveOutcomes(coll, d, QA_TOP_K) :
            out' = [QAResult(d, chunks, g.raises, g.len) EXCEPT !.during = InFlight # {}]
    /\ UNCHANGED <<coll, s_lock, s_pc, s_local, delState>>
    /\ UNCHANGED storeFrame

StoreInit ==
    /\ coll = <<>>
    /\ s_lock = "free"
    /\ s_pc = [s \in StoreThreads |-> "idle"]
    /\ s_local = [s \in StoreThreads |-> NoLocal]
    /\ out = NoOut
    /\ delState = [d \in Docs |-> "none"]

NextStore ==
    \E s \in StoreThreads :
        \/ AddBegin(s)
        \/ AddPersist(s)
        \/ Retrieve(s)
        \/ Stats(s)
        \/ DeleteBegin(s)
        \/ DeletePersist(s)
        \/ GetVocabularyChunks(s)
        \/ SearchByPage(s)
        \/ HealthCheck(s)
        \/ ClearBegin(s)
        \/ ClearCreate(s)
        \/ QAProcess(s)

----------------------------------------------------------------------------
(* The rate limited gateway: config/gemini_config.py *)

Callers == {"t1", "t2"}        \* threads calling generate_content on one client
MAX_REQUESTS_PER_MINUTE == 2   \* the ceiling (60 in the source), scaled down
RATE_LIMIT_WINDOW == 2         \* the window in ticks (60 s in the source)
MAX_WAIT == 3                  \* max_wait in ticks (65 s in the source)
MaxTime == 4                   \* the clock stops here

\* Of the last refused check of a blocking call:
\*   late   it was made RATE_LIMIT_WINDOW or more after start_wait
\*   newer  the number of requests in the window recorded after start_wait
\* attempts: how often the call invoked the backend
\* recorded: how many time stamps the call added to the window
NoCall == [wait |-> FALSE, start_wait |-> 0, current_time |-> 0, wake |-> 0,
           ceiling |-> FALSE, slept |-> FALSE, called |-> FALSE, recorded |-> 0,
           late |-> FALSE, newer |-> 0, attempts |-> 0, result |-> "none"]

\* mutant of Prune: no time stamp ever leaves the window
PruneNothing(times, t) == times

\* gemini_config.py:87-90: the time stamps younger than the window
Prune(times, t) == SelectSeq(times, LAMBDA x : t - x < RATE_LIMIT_WINDOW)

\* mutant of LockFree: the lock does not exclude
LockIgnored == TRUE

\* gemini_config.py:83  with self._lock:  (enabled when nobody holds it)
LockFree == g_lock = "free"

\* mutant of AtCeiling: a window exactly at the ceiling still admits a request
AtCeilingExceeded(times) == Len(times) > MAX_REQUESTS_PER_MINUTE

\* gemini_config.py:93  len(self._request_times) >= self.MAX_REQUESTS_PER_MINUTE
AtCeiling(times) == Len(times) >= MAX_REQUESTS_PER_MINUTE

\* mutant of RefusedNonBlocking: the refusal is ignored, the call goes on
RefusedNonBlockingGoesOn(c) == [pc |-> "backend", local |-> c]

\* gemini_config.py:142-143 and 162-164: the non-blocking call whose check
\* returned False raises "Rate limit exceeded"
RefusedNonBlocking(c) ==
    [pc |-> "done",
     local |-> [c EXCEPT !.result = "rate_limit_exceeded", !.current_time = 0]]

\* gemini_config.py:134-143: generate_content starts; without a model it
\* returns "" at once; a blocking call notes start_wait (108)
GenerateBegin(t) ==
    /\ g_pc[t] \in {"idle", "done"}
    /\ \E wait \in BOOLEAN :
         IF g_model
         THEN /\ g_pc' = [g_pc EXCEPT ![t] = "check"]
              /\ g_local' = [g_local EXCEPT ![t] =
                               [NoCall EXCEPT !.wait = wait,
                                              !.start_wait = IF wait THEN now ELSE 0]]
         ELSE /\ g_pc' = [g_pc EXCEPT ![t] = "done"]
              /\ g_local' = [g_local EXCEPT ![t] =
                               [NoCall EXCEPT !.wait = wait, !.result = "unavailable"]]
    /\ UNCHANGED <<now, request_times, g_model, g_lock, granted>>
    /\ UNCHANGED rateFrame

\* gemini_config.py:83-95: _check_rate_limit takes the lock, reads the clock,
\* prunes, and at the ceiling returns False (the lock is released); the
\* non-blocking caller then raises
CheckEnter(t) ==
    /\ g_pc[t] = "check"
    /\ LockFree
    /\ LET pruned == Prune(request_times, now)
           c == [g_local[t] EXCEPT
                    !.current_time = now,
                    !.ceiling = AtCeiling(pruned),
                    !.late = /\ AtCeiling(pruned)
                             /\ g_local[t].wait
                             /\ now - g_local[t].start_wait >= RATE_LIMIT_WINDOW,
                    !.newer = IF AtCeiling(pruned) /\ g_local[t].wait
                              THEN Len(SelectSeq(pruned,
                                                 LAMBDA x : x > g_local[t].start_wait))
                              ELSE 0]
       IN  /\ request_times' = pruned
           /\ IF AtCeiling(pruned)
              THEN /\ g_lock' = g_lock
                   /\ IF c.wait
                      THEN /\ g_pc' = [g_pc EXCEPT ![t] = "refused"]
                           /\ g_local' = [g_local EXCEPT ![t] = c]
                      ELSE /\ g_pc' = [g_pc EXCEPT ![t] = RefusedNonBlocking(c).pc]
                           /\ g_local' = [g_local EXCEPT ![t] = RefusedNonBlocking(c).local]
              ELSE /\ g_lock' = t
                   /\ g_pc' = [g_pc EXCEPT ![t] = "append"]
                   /\ g_local' = [g_local EXCEPT ![t] = c]
    /\ UNCHANGED <<now, g_model, granted>>
    /\ UNCHANGED rateFrame

\* mutant of RecordRequest: the granted request is not recorded
RecordNothing(times, t) == times

\* gemini_config.py:98  self._request_times.append(current_time)
RecordRequest(times, t) == Append(times, t)

\* gemini_config.py:97-99: the request is recorded, True is returned and the
\* lock released; generate_content goes on to the backend
CheckAppend(t) ==
    /\ g_pc[t] = "append"
    /\ request_times' = RecordRequest(request_times, g_local[t].current_time)
    /\ granted' = Append(granted, g_local[t].current_time)
    /\ g_lock' = "free"
    /\ g_pc' = [g_pc EXCEPT ![t] = "backend"]
    /\ g_local' = [g_local EXCEPT ![t].recorded = @ + Len(request_times') - Len(request_times),
                                   ![t].current_time = 0,
                                   ![t].start_wait = 0]
    /\ UNCHANGED <<now, g_model>>
    /\ UNCHANGED rateFrame

\* mutant of WaitExpired: the maximum wait is never found to be over
WaitNeverExpired(t) == FALSE

\* gemini_config.py:111  time.time() - start_wait > max_wait
WaitExpired(t) == now - g_local[t].start_wait > MAX_WAIT

\* gemini_config.py:110-113: _wait_for_rate_limit after a refused check:
\* past max_wait it raises, else it sleeps a second
WaitRefused(t) ==
    /\ g_pc[t] = "refused"
    /\ IF WaitExpired(t)
       THEN /\ g_pc' = [g_pc EXCEPT ![t] = "done"]
            /\ g_local' = [g_local EXCEPT ![t].result = "rate_limit_timeout",
                                           ![t].start_wait = 0, ![t].current_time = 0]
       ELSE /\ g_pc' = [g_pc EXCEPT ![t] = "sleep"]
            /\ g_local' = [g_local EXCEPT ![t].wake = now + 1, ![t].slept = TRUE,
                                           ![t].current_time = 0]
    /\ UNCHANGED <<now, request_times, g_model, g_lock, granted>>
    /\ UNCHANGED rateFrame

\* gemini_config.py:113  time.sleep(1) is over, the loop checks again
Wake(t) ==
    /\ g_pc[t] = "sleep"
    /\ now >= g_local[t].wake
    /\ g_pc' = [g_pc EXCEPT ![t] = "check"]
    /\ g_local' = [g_local EXCEPT ![t].wake = 0]
    /\ UNCHANGED <<now, request_times, g_model, g_lock, granted>>
    /\ UNCHANGED rateFrame

\* gemini_config.py:145-164: the backend is called: it gives text, gives
\* nothing ("" is returned) or raises (re-raised at 164)
BackendCall(t) ==
    /\ g_pc[t] = "backend"
    /\ \E r \in {"text", "empty", "backend_error"} :
         g_local' = [g_local EXCEPT ![t].called = TRUE, ![t].attempts = @ + 1,
                                     ![t].result = r]
    /\ g_pc' = [g_pc EXCEPT ![t] = "done"]
    /\ UNCHANGED <<now, request_times, g_model, g_lock, granted>>
    /\ UNCHANGED rateFrame

\* time passes
Tick ==
    /\ now < MaxTime
    /\ now' = now + 1
    /\ UNCHANGED <<request_times, g_model, g_lock, g_pc, g_local, granted>>
    /\ UNCHANGED rateFrame

RateInit ==
    /\ now = 0
    /\ request_times = <<>>
    /\ g_model \in BOOLEAN
    /\ g_lock = "free"
    /\ g_pc = [t \in Callers |-> "idle"]
    /\ g_local = [t \in Callers |-> NoCall]
    /\ granted = <<>>

NextRate ==
    \/ \E t \in Callers :
         \/ GenerateBegin(t)
         \/ CheckEnter(t)
         \/ CheckAppend(t)
         \/ WaitRefused(t)
         \/ Wake(t)
         \/ BackendCall(t)
    \/ Tick

----------------------------------------------------------------------------
(* The bounded-retry decorator: agents/base_agent.py retry_on_failure *)

MaxRetries == 3                \* largest max_retries argument (3 is the default)
Delays == {0, 1, 2}            \* delay arguments, in seconds
RetValues == {"v1", "v2"}      \* what func can return
RetErrors == {"e1", "e2"}      \* what func can raise

\* base_agent.py:54  for attempt in range(max_retries)
InRange(attempt, n) == attempt < n

\* mutant of SleepDelay: the delay grows with the attempt
SleepDelayGrowing(d, attempt) == d * (attempt + 1)

\* base_agent.py:64  time.sleep(delay)
SleepDelay(d, attempt) == d

\* base_agent.py:50-54: the wrapper is called; with max_retries < 1 the loop
\* body never runs and "raise last_error" (69) raises None: a TypeError
RetryBegin ==
    /\ r_pc = "idle"
    /\ \E n \in 0..MaxRetries, d \in Delays :
         /\ r_max' = n
         /\ r_delay' = d
         /\ r_pc' = IF InRange(0, n) THEN "call" ELSE "raised"
         /\ r_result' = IF InRange(0, n) THEN "none" ELSE "TypeError"
    /\ UNCHANGED <<r_attempt, r_last, r_log, r_slept>>
    /\ UNCHANGED retryFrame

\* base_agent.py:55-69: one invocation of func: its value is returned (56),
\* or its error is kept in last_error (58); before the last attempt the
\* wrapper then sleeps (59-64), after it the loop ends and last_error is
\* raised (69)
RetryAttempt ==
    /\ r_pc = "call"
    /\ \E o \in RetValues \cup RetErrors :
         /\ r_log' = Append(r_log, o)
         /\ IF o \in RetValues
            THEN /\ r_pc' = "returned"
                 /\ r_result' = o
                 /\ UNCHANGED <<r_last, r_attempt>>
            ELSE /\ r_last' = o
                 /\ IF r_attempt < r_max - 1
                    THEN /\ r_pc' = "sleep"
                         /\ UNCHANGED <<r_attempt, r_result>>
                    ELSE /\ r_attempt' = r_attempt + 1
                         /\ r_pc' = IF InRange(r_attempt + 1, r_max) THEN "call" ELSE "raised"
                         /\ r_result' = IF InRange(r_attempt + 1, r_max) THEN r_result ELSE o
    /\ UNCHANGED <<r_max, r_delay, r_slept>>
    /\ UNCHANGED retryFrame

\* base_agent.py:64 and 54: the sleep is over, the loop goes to the next attempt
RetrySleep ==
    /\ r_pc = "sleep"
    /\ r_slept' = Append(r_slept, SleepDelay(r_delay, r_attempt))
    /\ r_attempt' = r_attempt + 1
    /\ r_pc' = IF InRange(r_attempt + 1, r_max) THEN "call" ELSE "raised"
    /\ r_result' = IF InRange(r_attempt + 1, r_max) THEN r_result ELSE r_last
    /\ UNCHANGED <<r_max, r_delay, r_last, r_log>>
    /\ UNCHANGED retryFrame

RetryInit ==
    /\ r_pc = "idle"
    /\ r_max = 0
    /\ r_delay = 1
    /\ r_attempt = 0
    /\ r_last = "None"
    /\ r_log = <<>>
    /\ r_slept = <<>>
    /\ r_result = "none"

NextRetry ==
    \/ RetryBegin
    \/ RetryAttempt
    \/ RetrySleep

----------------------------------------------------------------------------
(* The extraction agent: agents/extraction_agent.py, agents/base_agent.py *)

Languages == {"en", "fr"}      \* language argument
MaxAgentChunks == 2            \* most chunks extract_text_chunks returns

\* How a generate_content call made through generate_text (blocking: the
\* default wait_on_rate_limit=True) ends: gemini_config.py:134-164
GenErrors == {"rate_limit_timeout", "backend_error"}
GenOutcomes == {"text", "empty"} \cup GenErrors

\* base_agent.py:260-284  parse_json_response: the text from the first "{" to
\* the last "}" is parsed: a dict, or no result
ParseKinds == {"dict", "none"}

\* base_agent.py:247-258  LLMAgent.generate_text: the success flag of the
\* pair it returns: (True, response), or (False, error_msg) when
\* generate_content raised; it never raises
GenerateText(o) == o \notin GenErrors

\* extraction_agent.py:145-157, 182-193, 218-229: the parsed list is used when
\* generate_text succeeded and the parse gave a list; else the default
\* ("Document Content" for topics, [] for the others)
Extracted(o, kind) ==
    IF GenerateText(o) /\ kind = "list" THEN "parsed" ELSE "default"

NoAgentLocals == [topics |-> "none", vocabulary |-> "none", grammar_points |-> "none",
                  chunks |-> 0, add |-> "none", committed |-> 0]

NoResponse == [success |-> FALSE, error |-> "none", topics |-> "none",
               chunks_indexed |-> 0]

\* extraction_agent.py:105-109  the successful response
AgentSuccess(loc) ==
    [success |-> TRUE, error |-> "none", topics |-> loc.topics,
     chunks_indexed |-> loc.chunks]

\* extraction_agent.py:58-73 and 111-119: process starts; extract_text_from_pdf
\* raises (failure response), gives no text (failure response) or gives text
AgentBegin ==
    /\ a_pc = "idle"
    /\ \E lang \in Languages, store \in BOOLEAN, text \in {"raises", "empty", "text"} :
         /\ a_in' = [language |-> lang, store |-> store]
         /\ IF text = "text"
            THEN /\ a_pc' = "topics"
                 /\ UNCHANGED a_out
            ELSE /\ a_pc' = "done"
                 /\ a_out' = [NoResponse EXCEPT !.error =
                                 IF text = "raises" THEN "extraction_failed" ELSE "no_text"]
    /\ UNCHANGED <<a_gen, a_loc>>
    /\ UNCHANGED agentFrame

\* extraction_agent.py:76 and 121-157  _extract_topics
AgentTopics ==
    /\ a_pc = "topics"
    /\ \E o \in GenOutcomes, kind \in ParseKinds :
         /\ a_gen' = Append(a_gen, o)
         /\ a_loc' = [a_loc EXCEPT !.topics = Extracted(o, kind)]
    /\ a_pc' = "vocab"
    /\ UNCHANGED <<a_in, a_out>>
    /\ UNCHANGED agentFrame

\* extraction_agent.py:79 and 159-193  _extract_vocabulary; 82: grammar points
\* are extracted only when language != "en"
AgentVocabulary ==
    /\ a_pc = "vocab"
    /\ \E o \in GenOutcomes, kind \in ParseKinds :
         /\ a_gen' = Append(a_gen, o)
         /\ a_loc' = [a_loc EXCEPT !.vocabulary = Extracted(o, kind)]
    /\ a_pc' = IF a_in.language # "en" THEN "grammar" ELSE "chunks"
    /\ UNCHANGED <<a_in, a_out>>
    /\ UNCHANGED agentFrame

\* extraction_agent.py:82 and 195-229  _extract_grammar_points
AgentGrammar ==
    /\ a_pc = "grammar"
    /\ \E o \in GenOutcomes, kind \in ParseKinds :
         /\ a_gen' = Append(a_gen, o)
         /\ a_loc' = [a_loc EXCEPT !.grammar_points = Extracted(o, kind)]
    /\ a_pc' = "chunks"
    /\ UNCHANGED <<a_in, a_out>>
    /\ UNCHANGED agentFrame

\* extraction_agent.py:85-88 (and 95-119): extract_text_chunks raises (failure
\* response) or gives n chunks; without a vector store, or with no chunk, the
\* successful response is returned at once
AgentChunks ==
    /\ a_pc = "chunks"
    /\ \E raises \in BOOLEAN, n \in 0..MaxAgentChunks :
         IF raises
         THEN /\ n = 0
              /\ a_pc' = "done"
              /\ a_out' = [NoResponse EXCEPT !.error = "extraction_failed"]
              /\ UNCHANGED a_loc
         ELSE /\ a_loc' = [a_loc EXCEPT !.chunks = n]
              /\ IF a_in.store /\ n > 0
                 THEN /\ a_pc' = "index"
                      /\ UNCHANGED a_out
                 ELSE /\ a_pc' = "done"
                      /\ a_out' = AgentSuccess([a_loc EXCEPT !.chunks = n])
    /\ UNCHANGED <<a_in, a_gen>>
    /\ UNCHANGED agentFrame

\* extraction_agent.py:88-109 with vector_store.py:89-139: add_pdf_chunks
\* returns True (the batch is committed), returns False with nothing stored
\* (collection.add raised), or returns False with the batch stored
\* (client.persist raised); its return value is not looked at, and the
\* successful response is returned
AgentIndex ==
    /\ a_pc = "index"
    /\ \E add \in {"true", "false_nothing_stored", "false_stored"} :
         /\ a_loc' = [a_loc EXCEPT
                         !.add = add,
                         !.committed = IF add = "false_nothing_stored" THEN 0 ELSE a_loc.chunks]
         /\ a_out' = AgentSuccess(a_loc)
    /\ a_pc' = "done"
    /\ UNCHANGED <<a_in, a_gen>>
    /\ UNCHANGED agentFrame

AgentInit ==
    /\ a_pc = "idle"
    /\ a_in = [language |-> "en", store |-> FALSE]
    /\ a_gen = <<>>
    /\ a_loc = NoAgentLocals
    /\ a_out = NoResponse

NextAgent ==
    \/ AgentBegin
    \/ AgentTopics
    \/ AgentVocabulary
    \/ AgentGrammar
    \/ AgentChunks
    \/ AgentIndex

----------------------------------------------------------------------------
(* Token counting: config/gemini_config.py count_tokens *)

MaxTextLen == 15               \* longest text, in characters
MaxTokens == 5                 \* largest total_tokens the backend reports

NoCount == [done |-> FALSE, text_len |-> 0, backend |-> "not_called",
            total_tokens |-> 0, result |-> 0]

\* gemini_config.py:242-252  count_tokens(text) for a text of text_len
\* characters; backend: what self.model.count_tokens did when there is a
\* model: "raises", or "answers" with total_tokens
count_tokens(model, text_len, backend, total_tokens) ==
    IF ~model THEN 0
    ELSE IF backend = "raises" THEN text_len \div 4
    ELSE total_tokens

\* one call of count_tokens
CountTokens ==
    /\ \E n \in 0..MaxTextLen, backend \in {"raises", "answers"}, total \in 0..MaxTokens :
         /\ backend = "raises" => total = 0
         /\ tk' = [done |-> TRUE,
                   text_len |-> n,
                   backend |-> IF g_model THEN backend ELSE "not_called",
                   total_tokens |-> IF g_model THEN total ELSE 0,
                   result |-> count_tokens(g_model, n, backend, total)]
    /\ UNCHANGED tokenFrame

TokenInit == tk = NoCount

NextToken == CountTokens

----------------------------------------------------------------------------
(* The confidence score as a function: agents/qa_agent.py calculate_confidence *)

MaxConfChunks == 2                      \* longest context_chunks list compared
ConfLens == {0, 40, 99, 100, 150}       \* len(answer_data['answer'])

\* non-empty context_chunks lists: the chunks carry the distances of Dist
ConfChunks == UNION {[1..n -> Ids] : n \in 1..MaxConfChunks}

NoConf == [done |-> FALSE, chunks1 |-> <<>>, len1 |-> 0, r1 |-> 0,
           chunks2 |-> <<>>, len2 |-> 0, r2 |-> 0]

\* qa_agent.py:222-247: calculate_confidence called on two pairs of arguments
Confidence ==
    /\ ~cf.done
    /\ \E c1, c2 \in ConfChunks, l1, l2 \in ConfLens :
         cf' = [done |-> TRUE,
                chunks1 |-> c1, len1 |-> l1, r1 |-> calculate_confidence(l1, c1),
                chunks2 |-> c2, len2 |-> l2, r2 |-> calculate_confidence(l2, c2)]
    /\ UNCHANGED confFrame

\* the next two calls
ConfAgain ==
    /\ cf.done
    /\ cf' = NoConf
    /\ UNCHANGED confFrame

ConfInit == cf = NoConf

NextConf ==
    \/ Confidence
    \/ ConfAgain

----------------------------------------------------------------------------
(* Text extraction: storage/pdf_handler.py extract_text_from_pdf *)

MaxPdfPages == 3                 \* most pages of a document
OcrThreshold == 10               \* pdf_handler.py:203  len(page_text.strip()) < 10

\* page.extract_text() or "": the directly extracted text of a page, by the
\* length of its stripped form (0: None, empty or whitespace only)
DirectTexts == {[src |-> "direct", len |-> n] : n \in {0, 9, 10}}

\* what the recognition of a page did: page.to_image or image_to_string
\* raised, or image_to_string returned whitespace only, or text
OcrOutcomes == {"raises", "blank", "text"}

NoExtract == [pc |-> "idle", enable_ocr |-> FALSE, pages |-> 0,
              by_page |-> <<>>, cause |-> "none"]

\* pdf_handler.py:203  recognition is tried on a page without usable text
NeedsOcr(enable_ocr, text) == enable_ocr /\ text.len < OcrThreshold

\* mutant of OcrRaises: the exception of the recognition is not caught
OcrRaisesUncaught(o) == o = "raises"

\* pdf_handler.py:204-212  the recognition runs inside try / except Exception:
\* nothing it raises leaves the block
OcrRaises(o) == FALSE

\* pdf_handler.py:205-210  page_text after the recognition block
AfterOcr(text, o) ==
    IF o = "text" THEN [src |-> "ocr", len |-> OcrThreshold] ELSE text

\* pdf_handler.py:196-198  pdfplumber.open and len(pdf.pages); open raises:
\* the handler at 243-245 re-raises
TextBegin ==
    /\ ex.pc = "idle"
    /\ \E ocr \in BOOLEAN, n \in 0..MaxPdfPages, raises \in BOOLEAN :
         ex' = IF raises
               THEN [NoExtract EXCEPT !.pc = "raised", !.enable_ocr = ocr, !.cause = "open"]
               ELSE [NoExtract EXCEPT !.pc = "pages", !.enable_ocr = ocr, !.pages = n]
    /\ UNCHANGED textFrame

\* pdf_handler.py:200-221  one iteration of the loop over pdf.pages:
\* extract_text (raises: 243-245), the recognition where needed, the append
\* to text_by_page.  Each entry notes the direct text and what the
\* recognition did ("none": not tried).
TextPage ==
    /\ ex.pc = "pages"
    /\ Len(ex.by_page) < ex.pages
    /\ \E raises \in BOOLEAN, text \in DirectTexts, o \in OcrOutcomes :
         IF raises
         THEN ex' = [ex EXCEPT !.pc = "raised", !.cause = "extract_text"]
         ELSE IF NeedsOcr(ex.enable_ocr, text) /\ OcrRaises(o)
         THEN ex' = [ex EXCEPT !.pc = "raised", !.cause = "ocr"]
         ELSE ex' = [ex EXCEPT !.by_page = Append(@,
                        [page_number |-> Len(ex.by_page) + 1,
                         direct |-> text,
                         ocr |-> IF NeedsOcr(ex.enable_ocr, text) THEN o ELSE "none",
                         text |-> IF NeedsOcr(ex.enable_ocr, text)
                                  THEN AfterOcr(text, o) ELSE text])]
    /\ UNCHANGED textFrame

\* pdf_handler.py:223-247  after the loop: full_text, get_pdf_metadata and
\* _detect_language (both catch what they raise: 355-356, 451-454), return
TextReturn ==
    /\ ex.pc = "pages"
    /\ Len(ex.by_page) = ex.pages
    /\ ex' = [ex EXCEPT !.pc = "returned"]
    /\ UNCHANGED textFrame

\* the next call
TextAgain ==
    /\ ex.pc \in {"returned", "raised"}
    /\ ex' = NoExtract
    /\ UNCHANGED textFrame

TextInit == ex = NoExtract

NextText ==
    \/ TextBegin
    \/ TextPage
    \/ TextReturn
    \/ TextAgain

----------------------------------------------------------------------------
(* Validation: storage/pdf_handler.py validate_pdf *)

MAX_FILE_SIZE == 3      \* PDFHandler.MAX_FILE_SIZE (50 MB in the source), scaled down
MAX_PAGES == 2          \* PDFHandler.MAX_PAGES (500 in the source), scaled down

\* The file as the checks of validate_pdf see it:
\*   exists  os.path.exists
\*   size    os.path.getsize; stat_raises: getsize raised
\*   mime    magic.from_file: "pdf" (application/pdf), "other", or "raises"
\*   open    pdfplumber.open and len(pdf.pages): "ok" or "raises"
\*   pages   the page count
\*   first   pages[0].extract_text(): "text" (10 characters or more after
\*           strip), "little", or "raises"
\* What a check does not reach is left at its first value.
PdfFiles ==
    {f \in [exists : BOOLEAN, stat_raises : BOOLEAN, size : 0..(MAX_FILE_SIZE + 1),
            mime : {"pdf", "other", "raises"}, open : {"ok", "raises"},
            pages : 0..(MAX_PAGES + 1), first : {"text", "little", "raises"}] :
        /\ ~f.exists => (~f.stat_raises /\ f.size = 0)
        /\ f.stat_raises => f.size = 0
        /\ (~f.exists \/ f.stat_raises \/ f.size = 0 \/ f.size > MAX_FILE_SIZE) => f.mime = "pdf"
        /\ f.mime = "other" => f.open = "ok"
        /\ f.open = "raises" => f.pages = 0
        /\ (f.pages = 0 \/ f.pages > MAX_PAGES) => f.first = "text"}

NoResult == [valid |-> FALSE, error |-> "none", page_count |-> 0, file_size |-> 0,
             warnings |-> {}]

\* pdf_handler.py:67-159  validate_pdf(file_path)
validate_pdf(f) ==
    LET w1 == IF f.mime = "raises" THEN {"could_not_verify_type"} ELSE {}
        w2 == IF f.first = "little" THEN {"little_text"} ELSE {}
    IN  IF ~f.exists THEN [NoResult EXCEPT !.error = "not_found"]
        ELSE IF f.stat_raises THEN [NoResult EXCEPT !.error = "validation_error"]
        ELSE IF f.size = 0 THEN [NoResult EXCEPT !.error = "empty"]
        ELSE IF f.size > MAX_FILE_SIZE
             THEN [NoResult EXCEPT !.error = "too_large", !.file_size = f.size]
        ELSE IF f.mime = "other"
             THEN [NoResult EXCEPT !.error = "invalid_type", !.file_size = f.size]
        ELSE IF f.open = "raises"
             THEN [NoResult EXCEPT !.error = "failed_to_read", !.file_size = f.size,
                                   !.warnings = w1]
        ELSE IF f.pages = 0
             THEN [NoResult EXCEPT !.error = "no_pages", !.file_size = f.size,
                                   !.warnings = w1]
        ELSE IF f.pages > MAX_PAGES
             THEN [NoResult EXCEPT !.error = "too_many_pages", !.file_size = f.size,
                                   !.page_count = f.pages, !.warnings = w1]
        ELSE IF f.first = "raises"
             THEN [NoResult EXCEPT !.error = "failed_to_read", !.file_size = f.size,
                                   !.page_count = f.pages, !.warnings = w1]
        ELSE [NoResult EXCEPT !.valid = TRUE, !.file_size = f.size,
                              !.page_count = f.pages, !.warnings = w1 \cup w2]

NoValidation == [done |-> FALSE,
                 file |-> [exists |-> FALSE, stat_raises |-> FALSE, size |-> 0,
                           mime |-> "pdf", open |-> "ok", pages |-> 0, first |-> "text"],
                 res |-> NoResult]

\* one call of validate_pdf
ValidatePdf ==
    /\ \E f \in PdfFiles : vp' = [done |-> TRUE, file |-> f, res |-> validate_pdf(f)]
    /\ UNCHANGED validateFrame

ValidateInit == vp = NoValidation

NextValidate == ValidatePdf

----------------------------------------------------------------------------
(* The module-level instances: config/gemini_config.py get_gemini_client,   *)
(* storage/vector_store.py get_vector_store (the same code for both)        *)

MaxInstances == 3       \* instances constructed in one run

\* instance: the global _gemini_client_instance (0: None, else the number of
\* the instance); made: instances constructed so far; per caller: position,
\* the instance it constructed (local) and the instance it was handed (got)
NoSingleton == [instance |-> 0, made |-> 0,
                pc |-> [t \in Callers |-> "idle"],
                local |-> [t \in Callers |-> 0],
                got |-> [t \in Callers |-> 0]]

\* gemini_config.py:333 / vector_store.py:436  if _instance is None:
\* the global is read without a lock
SingletonCheck(t) ==
    /\ sg.pc[t] \in {"idle", "done", "raised"}
    /\ sg' = [sg EXCEPT !.pc[t] = IF sg.instance = 0 THEN "construct" ELSE "return",
                        !.got[t] = 0, !.local[t] = 0]
    /\ UNCHANGED singletonFrame

\* gemini_config.py:334 / vector_store.py:437, right-hand side: the
\* constructor returns a new instance, with its own _request_times and _lock,
\* or raises (gemini_config.py:46-47, vector_store.py:74-76)
SingletonConstruct(t) ==
    /\ sg.pc[t] = "construct"
    /\ sg.made < MaxInstances
    /\ \E raises \in BOOLEAN :
         sg' = IF raises
               THEN [sg EXCEPT !.pc[t] = "raised"]
               ELSE [sg EXCEPT !.pc[t] = "assign", !.made = @ + 1,
                               !.local[t] = sg.made + 1]
    /\ UNCHANGED singletonFrame

\* gemini_config.py:334 / vector_store.py:437: the global is assigned
SingletonAssign(t) ==
    /\ sg.pc[t] = "assign"
    /\ sg' = [sg EXCEPT !.pc[t] = "return", !.instance = sg.local[t]]
    /\ UNCHANGED singletonFrame

\* gemini_config.py:336 / vector_store.py:439  return _instance: the global
\* is read again
SingletonReturn(t) ==
    /\ sg.pc[t] = "return"
    /\ sg' = [sg EXCEPT !.pc[t] = "done", !.got[t] = sg.instance]
    /\ UNCHANGED singletonFrame

SingletonInit == sg = NoSingleton

NextSingleton ==
    \E t \in Callers :
        \/ SingletonCheck(t)
        \/ SingletonConstruct(t)
        \/ SingletonAssign(t)
        \/ SingletonReturn(t)

----------------------------------------------------------------------------
(* Specifications *)

Init ==
    /\ ChunkInit /\ StoreInit /\ RateInit /\ RetryInit /\ AgentInit /\ TokenInit
    /\ ConfInit /\ TextInit /\ ValidateInit /\ SingletonInit

\* the chunker and the index do not read g_model: one value of it is enough
InitConfigured == Init /\ g_model = TRUE

SpecChunk == InitConfigured /\ [][NextChunk]_vars
SpecStore == InitConfigured /\ [][NextStore]_vars
SpecRate  == Init /\ [][NextRate]_vars
SpecRetry == InitConfigured /\ [][NextRetry]_vars
SpecAgent == InitConfigured /\ [][NextAgent]_vars
SpecToken == Init /\ [][NextToken]_vars
SpecConf  == InitConfigured /\ [][NextConf]_vars
SpecText  == InitConfigured /\ [][NextText]_vars
SpecValidate == InitConfigured /\ [][NextValidate]_vars
SpecSingleton == InitConfigured /\ [][NextSingleton]_vars

Next ==
    \/ NextChunk \/ NextStore \/ NextRate \/ NextRetry \/ NextAgent \/ NextToken
    \/ NextConf \/ NextText \/ NextValidate \/ NextSingleton
Spec == Init /\ [][Next]_vars


----------------------------------------------------------------------------
(* Properties of the rate limited gateway (SpecRate) *)

\* the calls granted with a time stamp in the window (T - RATE_LIMIT_WINDOW, T]
GrantedIn(T) ==
    Cardinality({i \in DOMAIN granted :
                    T - RATE_LIMIT_WINDOW < granted[i] /\ granted[i] <= T})

\* C1: under every interleaving of the callers of one client, no trailing
\* window of RATE_LIMIT_WINDOW ticks holds more than MAX_REQUESTS_PER_MINUTE
\* granted calls.
C1_WindowCeiling ==
    \A T \in 0..MaxTime : GrantedIn(T) <= MAX_REQUESTS_PER_MINUTE

\* two callers race for the last free slot of the window: one is between its
\* check and its append, the other is waiting to check
C1_Witness ==
    \E t, u \in Callers :
        /\ t # u
        /\ g_pc[t] = "append"
        /\ g_pc[u] = "check"
        /\ Len(request_times) = MAX_REQUESTS_PER_MINUTE - 1
        /\ \E T \in 0..MaxTime : GrantedIn(T) = MAX_REQUESTS_PER_MINUTE - 1

\* C10: a non-blocking generate_content call whose rate check found the
\* window at its ceiling has ended at once with "Rate limit exceeded": it did
\* not sleep, did not call the backend and recorded no time stamp.
C10_NonBlockingRefused ==
    \A t \in Callers :
        (~g_local[t].wait /\ g_local[t].ceiling) =>
            /\ g_pc[t] = "done"
            /\ g_local[t].result = "rate_limit_exceeded"
            /\ ~g_local[t].slept
            /\ ~g_local[t].called
            /\ g_local[t].recorded = 0

\* a non-blocking call was refused while the window held the ceiling of
\* requests that are all still young
C10_Witness ==
    \E t \in Callers :
        /\ g_pc[t] = "done"
        /\ ~g_local[t].wait
        /\ g_local[t].ceiling
        /\ g_local[t].result = "rate_limit_exceeded"
        /\ Len(request_times) = MAX_REQUESTS_PER_MINUTE

----------------------------------------------------------------------------
(* Properties of the vector index and the QA agent (SpecStore) *)

C3_AllOrNothing ==
    out.op = "add" =>
        /\ out.ok => out.missing = {}
        /\ ~out.ok => out.added = {}

\* C4: retrieve_relevant_chunks(query, pdf_id = d, top_k = k) returns at most
\* k chunks, each of them stored under document d.
C4_ScopedTopK ==
    out.op = "retrieve" =>
        /\ Len(out.res) <= out.top_k
        /\ out.docs \subseteq {out.pdf_id}
        /\ \A i, j \in DOMAIN out.res : i # j => out.res[i] # out.res[j]

\* a retrieval filled its top_k while the index held more chunks of the
\* document and a chunk of another document
C4_Witness ==
    /\ out.op = "retrieve"
    /\ out.top_k >= 1
    /\ Len(out.res) = out.top_k
    /\ Cardinality(Matching(coll, out.pdf_id)) > out.top_k
    /\ \E id \in DOMAIN coll : coll[id].pdf_id # out.pdf_id

----------------------------------------------------------------------------
(* Properties of the chunker (SpecChunk) *)

\* the loop over the page in hand has ended
PageDone ==
    \/ c_mode = "pdf" /\ c_page >= 1 /\ c_pc \in {"pages", "returned"}
    \/ c_mode = "helper" /\ c_pc = "returned"

\* the chunks made from the page in hand
PageChunks == SelectSeq(c_chunks, LAMBDA c : c.page = c_page)

NoSpaceIn(text) == \A i \in DOMAIN text : ~IsSpace(text[i])

CeilDiv(a, b) == (a + b - 1) \div b

\* C6: for a page of length L, window S and overlap O < S, each chunk after
\* the first starts S - O after the one before, every chunk but the last has
\* the span [start, start + S), and the end_char of the last is clamped to L.
\* (Stated for pages without whitespace, so that no window is skipped.)
C6_SpansClamped ==
    (PageDone /\ c_mode = "pdf" /\ c_overlap < c_size /\ NoSpaceIn(c_text)) =>
        LET pcs == PageChunks
            n == Len(pcs)
        IN  /\ \A i \in 2..n :
                  pcs[i].start_char = pcs[i - 1].start_char + (c_size - c_overlap)
            /\ \A i \in 1..(n - 1) : pcs[i].end_char = pcs[i].start_char + c_size
            /\ n >= 1 => pcs[n].end_char = Min(pcs[n].start_char + c_size, Len(c_text))

\* the span of a chunk inside its page
SpanEnd(c) == Min(c.end_char, Len(c_text))
Covered(p) == \E i \in DOMAIN PageChunks :
                 PageChunks[i].start_char <= p /\ p < SpanEnd(PageChunks[i])
OverlapOf(c, d) ==
    LET n == Min(SpanEnd(c), SpanEnd(d)) - d.start_char
    IN  IF n < 0 THEN 0 ELSE n

\* C7 as stated: for a page of length L and 0 <= O < S the chunk spans cover
\* [0, L) without a gap and consecutive chunks overlap in exactly O characters.
C7_CoversPage ==
    (PageDone /\ c_overlap < c_size) =>
        /\ \A p \in 0..(Len(c_text) - 1) : Covered(p)
        /\ \A i \in 1..(Len(PageChunks) - 1) :
              OverlapOf(PageChunks[i], PageChunks[i + 1]) = c_overlap

\* C7 as amended: every character of the page that is not whitespace lies in
\* the span of a chunk, and two consecutive chunks either come from adjacent
\* windows and overlap in exactly O characters, or lie a whole number of
\* window steps apart with only whitespace uncovered between them.
C7_CoversText ==
    (PageDone /\ c_overlap < c_size) =>
        /\ \A p \in 0..(Len(c_text) - 1) : ~IsSpace(c_text[p + 1]) => Covered(p)
        /\ \A i \in 1..(Len(PageChunks) - 1) :
              LET step == c_size - c_overlap
                  gap == PageChunks[i + 1].start_char - PageChunks[i].start_char
              IN  /\ gap >= step
                  /\ gap % step = 0
                  /\ gap = step =>
                        OverlapOf(PageChunks[i], PageChunks[i + 1]) = c_overlap

\* a page with text before and after a skipped whitespace-only window, and a
\* pair of chunks that overlap
C7_Witness ==
    /\ PageDone
    /\ 0 < c_overlap
    /\ c_overlap < c_size
    /\ \E p \in 0..(Len(c_text) - 1) : ~Covered(p)
    /\ \E i \in 1..(Len(PageChunks) - 1) :
          PageChunks[i + 1].start_char - PageChunks[i].start_char = c_size - c_overlap

\* the windows the loop visits on a text of length L
NumWindows(L, S, O) ==
    IF L = 0 THEN 0 ELSE IF L > O THEN CeilDiv(L - O, S - O) ELSE 1

\* C8 as stated: a page of length L gives ceil((L - O) / (S - O)) chunks when
\* L > O and 1 chunk otherwise.
C8_CountFormula ==
    (PageDone /\ c_overlap < c_size) =>
        Len(PageChunks) = IF Len(c_text) > c_overlap
                          THEN CeilDiv(Len(c_text) - c_overlap, c_size - c_overlap)
                          ELSE 1

\* C8 as amended: a page of length L >= 1 gives one chunk for each of its
\* ceil((L - O) / (S - O)) windows (1 window when L <= O) that does not hold
\* only whitespace, and a page of length 0 gives none.
C8_CountWindows ==
    (PageDone /\ c_overlap < c_size) =>
        LET step == c_size - c_overlap
            kept == {i \in 0..(NumWindows(Len(c_text), c_size, c_overlap) - 1) :
                        Strip(PySlice(c_text, i * step, i * step + c_size)) # <<>>}
        IN  Len(PageChunks) = Cardinality(kept)

\* a page of several windows, one of them skipped, with an overlap, and a
\* window that ends exactly at the page end
C8_Witness ==
    /\ PageDone
    /\ 0 < c_overlap
    /\ c_overlap < c_size
    /\ Len(PageChunks) >= 2
    /\ Len(PageChunks) < NumWindows(Len(c_text), c_size, c_overlap)
    /\ (Len(c_text) - c_size) % (c_size - c_overlap) = 0

\* C9: a call with overlap >= chunk_size is rejected: it makes no chunk.
C9_Rejected == c_overlap >= c_size => c_chunks = <<>>

----------------------------------------------------------------------------
(* Properties of the blocking call (SpecRate) *)

\* the blocking call of t has ended after at least one refused rate check
BlockingEnded(t) ==
    /\ g_pc[t] = "done"
    /\ g_local[t].wait
    /\ g_local[t].slept \/ g_local[t].result = "rate_limit_timeout"

\* C11 as stated: a blocking call that found the window at its ceiling passes
\* the rate check and reaches the backend, whatever the other callers do: it
\* does not end with the rate-limit timeout when its last poll was made after
\* the requests that filled the window had aged out.
C11_AlwaysPasses ==
    \A t \in Callers : (BlockingEnded(t) /\ g_local[t].late) => g_local[t].called

\* C11 as amended: a blocking call that found the window at its ceiling
\* either passes the rate check once and reaches the backend, or ends with
\* the rate-limit timeout after a refused poll; a poll made a window length
\* or more after the call began to wait is refused only when the window is
\* full of requests recorded after the call began to wait (the slots that
\* aged out were taken by other callers).
C11_PassesUnlessRefilled ==
    \A t \in Callers :
        /\ BlockingEnded(t) =>
              \/ g_local[t].called /\ g_local[t].recorded = 1
              \/ /\ g_local[t].result = "rate_limit_timeout"
                 /\ g_local[t].ceiling
                 /\ ~g_local[t].called
        /\ g_local[t].late => g_local[t].newer >= MAX_REQUESTS_PER_MINUTE

\* a blocking call was refused, slept, and reached the backend after the
\* requests that filled the window had aged out
C11_Witness ==
    \E t \in Callers :
        /\ BlockingEnded(t)
        /\ g_local[t].slept
        /\ g_local[t].called
        /\ g_local[t].result = "text"
        /\ now >= RATE_LIMIT_WINDOW

\* C12: a blocking call does not wait for ever.  A refused poll made after
\* more than MAX_WAIT ticks of waiting ends the call with the rate-limit
\* timeout, the backend not called and no time stamp recorded; a refused poll
\* made earlier is followed by a sleep of one tick; and the timeout is raised
\* nowhere else.
C12_BoundedWait ==
    [][\A t \in Callers :
          LET elapsed == now - g_local[t].start_wait
              timedOut == g_local'[t].result = "rate_limit_timeout"
          IN  /\ (g_pc[t] = "refused" /\ g_pc'[t] # "refused") =>
                    IF elapsed > MAX_WAIT
                    THEN /\ g_pc'[t] = "done"
                         /\ timedOut
                         /\ ~g_local'[t].called
                         /\ g_local'[t].recorded = 0
                    ELSE /\ g_pc'[t] = "sleep"
                         /\ g_local'[t].wake = now + 1
                         /\ ~timedOut
              /\ (timedOut /\ g_local[t].result # "rate_limit_timeout") =>
                    g_pc[t] = "refused" /\ g_local[t].wait /\ elapsed > MAX_WAIT
      ]_vars

\* a blocking call polled, slept, and was refused again after the maximum
\* wait: it ended with the timeout
C12_Witness ==
    \E t \in Callers :
        /\ g_pc[t] = "done"
        /\ g_local[t].wait
        /\ g_local[t].slept
        /\ g_local[t].result = "rate_limit_timeout"
        /\ ~g_local[t].called

----------------------------------------------------------------------------
(* Properties of retry_on_failure (SpecRetry) *)

\* C13: func is invoked at most max_retries times; only the last invocation
\* can have returned, and its value is what the wrapper returns; between two
\* consecutive invocations the wrapper sleeps the fixed delay once; when
\* max_retries >= 1 invocations all raised, the wrapper raises the error of
\* the last one; and a wrapper that raised returned no value.
C13_BoundedRetry ==
    LET n == Len(r_log)
    IN  /\ n <= r_max
        /\ \A i \in 1..(n - 1) : r_log[i] \in RetErrors
        /\ \A i \in DOMAIN r_slept : r_slept[i] = r_delay
        /\ r_pc = "call" => Len(r_slept) = n
        /\ r_pc \in {"returned", "raised"} /\ n >= 1 => Len(r_slept) = n - 1
        /\ r_pc = "returned" => n >= 1 /\ r_log[n] \in RetValues /\ r_result = r_log[n]
        /\ r_pc = "raised" => r_result \notin RetValues
        /\ r_pc = "raised" /\ r_max >= 1 =>
              /\ n = r_max
              /\ \A i \in 1..n : r_log[i] \in RetErrors
              /\ r_result = r_log[n]

\* three attempts were made and failed, the last with another error than the
\* one before; the wrapper slept twice and raised the last error
C13_Witness ==
    /\ r_pc = "raised"
    /\ r_max = 3
    /\ Len(r_log) = 3
    /\ r_log[2] # r_log[3]
    /\ Len(r_slept) = 2
    /\ r_result = r_log[3]

----------------------------------------------------------------------------
(* The retry wrapper around the backend call (SpecRate) *)

DEFAULT_MAX_RETRIES == 3       \* base_agent.py:39  max_retries: int = 3

\* C14: the backend call of generate_content runs under the bounded-retry
\* wrapper: when the error of the backend reaches the caller, the backend
\* has been attempted DEFAULT_MAX_RETRIES times for that call.
C14_BackendRetried ==
    \A t \in Callers :
        (g_pc[t] = "done" /\ g_local[t].result = "backend_error") =>
            g_local[t].attempts = DEFAULT_MAX_RETRIES

----------------------------------------------------------------------------
(* Properties of the extraction agent (SpecAgent) *)

\* C15: rate-limit and generation failures propagate: an agent operation in
\* which a generate_content call raised reports a failure; process does not
\* return success when one of its generate_content calls raised.
C15_FailuresPropagate ==
    (a_pc = "done" /\ a_out.success) =>
        \A i \in DOMAIN a_gen : a_gen[i] \notin GenErrors

----------------------------------------------------------------------------
(* Properties of count_tokens (SpecToken) *)

\* C16: count_tokens returns the token count of the backend when the backend
\* is available and answers, and the estimate len(text) // 4 in every other
\* case (no model, or the backend call raised).
C16_CountOrEstimate ==
    tk.done =>
        tk.result = IF tk.backend = "answers" THEN tk.total_tokens
                    ELSE tk.text_len \div 4

----------------------------------------------------------------------------
(* Further properties of the vector index (SpecStore) *)

\* C17: add_pdf_chunks is idempotent per chunk identifier: after a successful
\* add, every identifier of the batch has exactly one entry in the index, and
\* that entry carries the data of this (the later) add.
C17_ReAddOverwrites ==
    (out.op = "add" /\ out.ok) => (out.missing = {} /\ out.stale = {})

\* the value a returned bool has as a number (True == 1, False == 0)
BoolAsInt(b) == IF b THEN 1 ELSE 0

\* C18: delete_pdf_collection returns the number of chunks it removed; for a
\* document without chunks that is 0, and a call that ended in a backend
\* error returns something else than that 0.
C18_ReturnsCount ==
    out.op = "delete" =>
        /\ out.kind # "error" => BoolAsInt(out.ok) = out.removed
        /\ out.kind = "error" => BoolAsInt(out.ok) # 0


\* C19: on one ChromaVectorStore the mutating operations (add_pdf_chunks,
\* delete_pdf_collection, clear_all) are mutually exclusive: at most one
\* thread is between the change of the collection and its return, and it
\* holds the lock; and no query (retrieve_relevant_chunks, also inside
\* QAAgent.process, get_collection_stats, get_vocabulary_chunks,
\* search_by_page) runs while a mutating call is in that stretch, so none
\* sees a batch partly added or partly deleted.
QueryOps == {"retrieve", "stats", "vocabulary", "page", "qa"}

C19_MutuallyExclusive ==
    /\ Cardinality(InFlight) <= 1
    /\ \A s \in StoreThreads : s \in InFlight <=> s_lock = s
    /\ out.op \in QueryOps => ~out.during

\* a query of a document has returned chunks and a thread is now inside a
\* mutating call, holding the lock, while the other thread is outside
C19_Witness ==
    /\ out.op \in QueryOps
    /\ out.docs # {}
    /\ \E s \in StoreThreads :
         /\ s_pc[s] \in {"add_persist", "del_persist", "clear_create"}
         /\ s_lock = s
         /\ \E o \in StoreThreads \ {s} : s_pc[o] = "idle"


\* C20: for a non-empty list of retrieved chunks and an answer text,
\* calculate_confidence returns, in hundredths, the hundredth nearest to
\*   70 * (1 - min(avgDistance, 1)) + 30 * min(len(answer) / 100, 1)
\* with avgDistance the arithmetic mean of the chunk distances (here as the
\* fraction C20_Numerator / C20_Denominator, so no division rounds before the
\* comparison), and the value lies in [0, 1], 0..100 hundredths.
C20_Denominator == 100 * Len(out.res)

C20_Numerator ==
    LET m == Len(out.res)
        total == SumDist(out.res)                     \* 100 * m * avgDistance
        over == IF total > 100 * m THEN 100 * m ELSE total
        length == IF out.answer_len > 100 THEN 100 ELSE out.answer_len
    IN  70 * (100 * m - over) + 30 * m * length

C20_ConfidenceFormula ==
    (out.op = "qa" /\ out.kind = "answered") =>
        /\ out.res # <<>>
        /\ 2 * (out.confidence * C20_Denominator - C20_Numerator) <= C20_Denominator
        /\ 2 * (C20_Numerator - out.confidence * C20_Denominator) <= C20_Denominator
        /\ out.confidence \in 0..100

\* an answer longer than 100 characters over chunks whose average distance is
\* above 1.0: both caps apply and the confidence is 0.3
C20_Witness ==
    /\ out.op = "qa"
    /\ out.kind = "answered"
    /\ out.answer_len > 100
    /\ SumDist(out.res) > 100 * Len(out.res)
    /\ out.confidence = 30

----------------------------------------------------------------------------
(* Properties of the confidence score (SpecConf) *)

\* 100 * Len(a) * Len(b) * (average distance of a), for comparing the averages
\* of two lists without dividing
AvgTimes(a, b) == SumDist(a) * Len(b)

\* the same for the average capped at 1.0, which fixes the similarity
SimTimes(a, b) ==
    (IF SumDist(a) > 100 * Len(a) THEN 100 * Len(a) ELSE SumDist(a)) * Len(b)

C22_OrderedWithTies ==
    out.op = "retrieve" =>
        \A i, j \in DOMAIN out.res :
            i < j => \/ Dist(out.res[i]) < Dist(out.res[j])
                     \/ /\ Dist(out.res[i]) = Dist(out.res[j])
                        /\ ChunkSeq(out.res[i]) < ChunkSeq(out.res[j])

----------------------------------------------------------------------------
(* Properties of extract_text_from_pdf (SpecText) *)

\* C23: with the recognition enabled, a recognition that fails on a page does
\* not fail the extraction: the call never raises because of it, the page
\* keeps its directly extracted text, the pages after it are processed, and
\* the result has one entry per page, in page order.
C23_OcrNonFatal ==
    /\ ex.pc = "raised" => ex.cause # "ocr"
    /\ \A k \in DOMAIN ex.by_page :
         /\ ex.by_page[k].page_number = k
         /\ ex.by_page[k].ocr = "raises" => ex.by_page[k].text = ex.by_page[k].direct
    /\ ex.pc = "returned" => Len(ex.by_page) = ex.pages

\* a call returned for a document whose first page had no text and a failed
\* recognition and whose second page was recognized
C23_Witness ==
    /\ ex.pc = "returned"
    /\ ex.enable_ocr
    /\ ex.pages >= 2
    /\ ex.by_page[1].ocr = "raises"
    /\ ex.by_page[1].text.len = 0
    /\ ex.by_page[2].ocr = "text"

----------------------------------------------------------------------------
(* Properties of validate_pdf (SpecValidate) *)

\* C24: validate_pdf reports a document as valid only if the file is not
\* empty, its size does not exceed MAX_FILE_SIZE, its type is recognized as
\* PDF, the parser can open it and its page count does not exceed MAX_PAGES;
\* every outcome that is not valid has an error set; and a document that
\* passes every check is valid whatever warnings it carries.
C24_ValidOnlyIfAllPass ==
    vp.done =>
        /\ vp.res.valid =>
              /\ vp.file.size # 0
              /\ vp.file.size <= MAX_FILE_SIZE
              /\ vp.file.mime = "pdf"
              /\ vp.file.open = "ok"
              /\ vp.file.pages <= MAX_PAGES
        /\ ~vp.res.valid => vp.res.error # "none"
        /\ (vp.res.warnings # {} /\ vp.res.error = "none") => vp.res.valid

----------------------------------------------------------------------------
(* Frame of the rate check (SpecRate) *)

\* the time stamps of a window that are younger than RATE_LIMIT_WINDOW at time t
Young(times, t) == SelectSeq(times, LAMBDA x : x > t - RATE_LIMIT_WINDOW)

\* C25: _check_rate_limit first drops the time stamps that have left the
\* window and keeps all others, in order; with the rest at the ceiling it
\* returns False and adds nothing; otherwise it appends exactly one time
\* stamp, the time it read, and returns True.
C25_CheckFrame ==
    [][\A t \in Callers :
          /\ (g_pc[t] = "check" /\ g_pc'[t] # "check") =>
                /\ request_times' = Young(request_times, now)
                /\ g_pc'[t] \in {"refused", "done"}
                      <=> Len(Young(request_times, now)) >= MAX_REQUESTS_PER_MINUTE
                /\ g_pc'[t] = "append"
                      <=> Len(Young(request_times, now)) < MAX_REQUESTS_PER_MINUTE
                /\ g_pc'[t] = "append" => g_local'[t].current_time = now
          /\ (g_pc[t] = "append" /\ g_pc'[t] # "append") =>
                /\ g_pc'[t] = "backend"
                /\ request_times' = Append(request_times, g_local[t].current_time)
      ]_vars

\* a check returned True after time stamps had left the window: the window
\* is shorter than the history of granted requests and ends with the time
\* stamp of this request
C25_Witness ==
    \E t \in Callers :
        /\ g_pc[t] = "backend"
        /\ g_local[t].recorded = 1
        /\ request_times # <<>>
        /\ Len(granted) > Len(request_times)
        /\ request_times[Len(request_times)] = granted[Len(granted)]

----------------------------------------------------------------------------
(* Termination of the chunking loop (SpecChunk) *)

\* the text in hand has produced no chunk (chunk_text records page 0)
NoChunkOfText == \A i \in DOMAIN c_chunks : c_chunks[i].page # c_page

\* C26: for chunk_size >= 1 and 0 <= overlap < chunk_size the loop over a
\* page terminates: every iteration moves start strictly forward and never
\* past the page length, so the loop makes no more iterations than the page
\* has characters; and a text that is empty or whitespace only yields no chunk.
C26_LoopTerminates ==
    /\ [](c_overlap < c_size => (c_iters <= c_start /\ c_start <= Len(c_text)))
    /\ [](Strip(c_text) = <<>> => NoChunkOfText)
    /\ [][(c_overlap < c_size /\ c_iters' = c_iters + 1) =>
             (c_start' > c_start /\ c_start' <= Len(c_text))]_vars

\* a page was cut into three windows or more with a positive overlap and the
\* loop has ended at the page length
C26_Witness ==
    /\ c_pc \in {"pages", "returned"}
    /\ c_overlap >= 1
    /\ c_overlap < c_size
    /\ c_iters >= 3
    /\ c_start = Len(c_text)

----------------------------------------------------------------------------
(* Properties of the module-level instances (SpecSingleton) *)

\* C27: get_gemini_client (likewise get_vector_store) hands the same single
\* instance to every caller, callers racing on the first call included: no
\* two callers hold different instances.
C27_SingleInstance ==
    \A t, u \in Callers : (sg.got[t] # 0 /\ sg.got[u] # 0) => sg.got[t] = sg.got[u]

----------------------------------------------------------------------------
(* Recording of granted requests (SpecRate) *)

\* C28: a generate_content call that passes the rate check has added exactly
\* one time stamp to the window when the backend is called, and the backend
\* call, whether it returns text, returns nothing or raises, leaves the
\* window as it is; a call that returns early for want of a model, or that
\* fails the rate check, adds none and does not reach the backend.
C28_OneStampPerGrantedCall ==
    /\ [](\A t \in Callers :
            /\ g_pc[t] = "backend" => (g_local[t].recorded = 1 /\ ~g_local[t].called)
            /\ g_local[t].result \in {"text", "empty", "backend_error"}
                  => (g_local[t].recorded = 1 /\ g_local[t].called)
            /\ g_local[t].result \in {"unavailable", "rate_limit_exceeded", "rate_limit_timeout"}
                  => (g_local[t].recorded = 0 /\ ~g_local[t].called))
    /\ [][\A t \in Callers :
            (g_pc[t] = "backend" /\ g_pc'[t] # "backend") => request_times' = request_times]_vars

\* one call was granted and its backend call raised, its time stamp still in
\* the window; another call then failed the rate check at the full window
C28_Witness ==
    \E t, u \in Callers :
        /\ g_local[t].result = "backend_error"
        /\ g_local[t].recorded = 1
        /\ g_local[u].result = "rate_limit_exceeded"
        /\ Len(request_times) = MAX_REQUESTS_PER_MINUTE

----------------------------------------------------------------------------
(* Indexing by the extraction agent (SpecAgent) *)

\* C29: when ExtractionAgent.process returns success with chunks_indexed = n
\* and a vector store is configured, exactly those n chunks are committed in
\* the index; chunks are never reported as indexed when add_pdf_chunks failed.
C29_IndexedMeansCommitted ==
    (a_pc = "done" /\ a_out.success /\ a_in.store) =>
        /\ a_out.chunks_indexed = a_loc.committed
        /\ a_out.chunks_indexed > 0 => a_loc.add = "true"

----------------------------------------------------------------------------
(* Frame of delete_pdf_collection (SpecStore) *)

\* the chunks stored for document e, with their metadata
StoredFor(c, e) == [id \in {i \in DOMAIN c : c[i].pdf_id = e} |-> c[id]]

\* C30: delete_pdf_collection(d) changes only the chunks of d: for every other
\* document e the chunks stored for e are the same before and after each step
\* of the call, whether it removes chunks, finds none or fails.
C30_DeleteFrame ==
    [][/\ \A s \in StoreThreads :
            (s_pc[s] = "idle" /\ s_pc'[s] = "del_persist") =>
                \A e \in Docs \ {s_local'[s].pdf_id} : StoredFor(coll', e) = StoredFor(coll, e)
       /\ \A s \in StoreThreads :
            (s_pc[s] = "del_persist" /\ s_pc'[s] = "idle") => coll' = coll
       /\ (out'.op = "delete" /\ out' # out) =>
                \A e \in Docs \ {out'.pdf_id} : StoredFor(coll', e) = StoredFor(coll, e)
      ]_vars

\* a delete has removed the chunks of its document and chunks of another
\* document are in the index
C30_Witness ==
    \E s \in StoreThreads :
        /\ s_pc[s] = "del_persist"
        /\ s_local[s].batch # {}
        /\ \E id \in DOMAIN coll : coll[id].pdf_id # s_local[s].pdf_id

====
